---- MODULE Spec2Model ----
(***************************************************************************)
(* Department-scoped authorization and attendance reconciliation of the    *)
(* fre-form backend (FastAPI + SQLModel).  The state is the content of the *)
(* relational tables the handlers read and write; every action is one HTTP *)
(* handler, run as one transaction, from its dependencies to its commit.   *)
(* The variable `last` holds the request the last handler served and the   *)
(* way its control flow ended.                                             *)
(***************************************************************************)
EXTENDS Integers, Sequences, FiniteSets, TLC

VARIABLES
    users,             \* users table: id -> [role, is_active]
    user_departments,  \* user_departments link table: set of <<user_id, department_id>>
    departments,       \* departments table: id -> [name, description]
    programs,          \* programs table: id -> [department_id, type]
    students,          \* students table: id -> [department_id, category]
    student_sections,  \* student_addresses, student_families, ...: rows of SectionRow
    sessions,          \* attendance_sessions table: row i has id i
    records,           \* attendance_records table: row i has id i
    tokens,            \* the tokens signed with SECRET_KEY: payloads [sub, type, exp]
    refreshed,         \* the refresh tokens accepted so far, in order (no table keeps them)
    inflight,          \* the requests between two awaits: slot -> what the handler holds
    last               \* the last request served and its outcome

vars == <<users, user_departments, departments, programs, students, student_sections,
          sessions, records, tokens, refreshed, inflight, last>>

tables == <<users, user_departments, departments, programs, students, student_sections,
            tokens, refreshed, inflight>>

-----------------------------------------------------------------------------
(* Bounds of the model *)

MaxSessions == 2      \* rows of attendance_sessions
MaxRecords == 4       \* rows of attendance_records
MaxRecordRows == 2    \* rows of attendance_records while single records are posted

-----------------------------------------------------------------------------
(* Enumerations *)

SUPER_ADMIN == "super_admin"
ADMIN == "admin"
MANAGER == "manager"
UserRole == {SUPER_ADMIN, ADMIN, MANAGER}

PRESENT == "PRESENT"
ABSENT == "ABSENT"
EXCUSED == "EXCUSED"
AttendanceStatus == {PRESENT, ABSENT, EXCUSED}

ProgramType == {"REGULAR", "EVENT"}

StudentCategory == {"CHILDREN", "ADOLESCENT", "YOUTH", "ADULT"}

\* Optional[int] columns and parameters left unset (Python None)
NoId == 0

\* Optional[str] left unset (Python None)
NoText == "None"

-----------------------------------------------------------------------------
(* Request inputs *)

UserIds == 1..3
DeptIds == 1..3          \* department 3 is stored nowhere
ProgramIds == 1..3       \* program 3 is stored nowhere
StudentIds == 1..3
Dates == {1}
ReqCategories == {"CHILDREN", "YOUTH"}
Notes == {NoText, "late"}
PresentValues == {"True", "False", "None"}   \* Optional[bool]

\* the truth value Python gives an Optional[bool]
Truthy(p) == p = "True"

-----------------------------------------------------------------------------
(* The access-control gate *)

\* the outcome of the handler that ran last; fields a request does not have are
\* NoId / the empty set
\*   op       the handler
\*   user     the caller
\*   result   how the handler ended: the exception it raised, or its success
\*   dept     the department id the gate was consulted with (NoId: not consulted)
\*   sid      the session the request names, or the session it created
\*   student  the student the request names
\*   listed   the ids of the sessions in the response
\*   recs     the ids of the attendance records written or returned
\*   supplied the number of records the request body carries
Response(op, user, result, dept, sid, student, listed, recs, supplied) ==
    [op |-> op, user |-> user, result |-> result, dept |-> dept, sid |-> sid,
     student |-> student, listed |-> listed, recs |-> recs, supplied |-> supplied]

NoRequest == Response("none", NoId, "none", NoId, NoId, NoId, {}, {}, 0)

\* a slot with no request between two awaits
Idle == [stage |-> "idle"]

\* the tables and tokens a request in flight leaves alone
OtherThanInflight ==
    <<users, user_departments, departments, programs, students, student_sections,
      tokens, refreshed>>

\* the dependency that asks only for a stored user
get_current_active_user_Stored(u) == u \in DOMAIN users

\* get_current_active_user: the token names a stored user whose is_active is set
get_current_active_user(u) == u \in DOMAIN users /\ users[u].is_active

\* the ids the user_departments link table holds for a user
get_user_departments(user_id) ==
    {ud[2] : ud \in {x \in user_departments : x[1] = user_id}}

\* user.departments, the relationship over the same link table
UserDepartmentIds(u) == {ud[2] : ud \in {x \in user_departments : x[1] = u}}

\* the helper without its SUPER_ADMIN shortcut
check_department_permission_NoShortcut(u, department_id) ==
    department_id \in UserDepartmentIds(u)

\* TRUE when the helper returns (True or None), FALSE when it raises 403
check_department_permission(u, department_id) ==
    IF users[u].role = SUPER_ADMIN
    THEN TRUE
    ELSE department_id \in UserDepartmentIds(u)

check_admin_department_access(u, department_id) ==
    IF users[u].role = SUPER_ADMIN
    THEN TRUE
    ELSE IF users[u].role \notin {ADMIN, MANAGER}
         THEN FALSE
         ELSE department_id \in get_user_departments(u)

\* TRUE when the dependency returns (user, session), FALSE when it raises 403.
\* department_id is the dependency's own parameter: the handlers that use it have
\* no department_id in their path, so it is the query parameter of the request.
require_manager_department_access(department_id, u) ==
    IF users[u].role \in {SUPER_ADMIN, ADMIN}
    THEN TRUE
    ELSE IF users[u].role # MANAGER
         THEN FALSE
         ELSE check_admin_department_access(u, department_id)

-----------------------------------------------------------------------------
(* The gate on its own: one user of any role and any assignment *)

FixedTables ==
    /\ departments = (1 :> [name |-> "QA", description |-> NoText])
                     @@ (2 :> [name |-> "HR", description |-> NoText])
    /\ programs = (1 :> [department_id |-> 1, type |-> "REGULAR"])
                  @@ (2 :> [department_id |-> 2, type |-> "EVENT"])
    /\ student_sections = {}
    /\ tokens = {}
    /\ refreshed = <<>>
    /\ inflight = [slot \in 1..2 |-> Idle]
    /\ students = (1 :> [department_id |-> 1, category |-> "CHILDREN"])
                  @@ (2 :> [department_id |-> 1, category |-> "CHILDREN"])
                  @@ (3 :> [department_id |-> 2, category |-> "YOUTH"])

EmptyLog ==
    /\ sessions = <<>>
    /\ records = <<>>
    /\ last = NoRequest

InitGate ==
    /\ \E role \in UserRole : users = (1 :> [email |-> "a", role |-> role, is_active |-> TRUE])
    /\ \E assigned \in SUBSET DeptIds : user_departments = {<<1, d>> : d \in assigned}
    /\ FixedTables
    /\ EmptyLog

ApplyCheckDepartmentPermission(u, d) ==
    /\ last' = Response("check_department_permission", u,
                        IF check_department_permission(u, d) THEN "allow" ELSE "forbidden",
                        d, NoId, NoId, {}, {}, 0)
    /\ UNCHANGED <<tables, sessions, records>>

ApplyCheckAdminDepartmentAccess(u, d) ==
    /\ last' = Response("check_admin_department_access", u,
                        IF check_admin_department_access(u, d) THEN "allow" ELSE "forbidden",
                        d, NoId, NoId, {}, {}, 0)
    /\ UNCHANGED <<tables, sessions, records>>

NextGate ==
    \/ \E u \in DOMAIN users, d \in DeptIds : ApplyCheckDepartmentPermission(u, d)
    \/ \E u \in DOMAIN users, d \in DeptIds : ApplyCheckAdminDepartmentAccess(u, d)

SpecGate == InitGate /\ [][NextGate]_vars

-----------------------------------------------------------------------------
(* Attendance: rows and queries *)

\* a set of ids as the list a query returns (by primary key)
RECURSIVE SetToSeq(_)
SetToSeq(S) ==
    IF S = {}
    THEN <<>>
    ELSE LET m == CHOOSE x \in S : \A y \in S : x <= y
         IN  <<m>> \o SetToSeq(S \ {m})

\* AttendanceSession(...): the row a handler adds.  is_active is the column the
\* migration adds with server default true; no handler writes it.
AttendanceSession(date, department_id, program_id, target_category, type) ==
    [date |-> date, department_id |-> department_id, program_id |-> program_id,
     target_category |-> target_category, type |-> type, is_active |-> TRUE]

AttendanceRecord(session_id, student_id, status, remarks) ==
    [session_id |-> session_id, student_id |-> student_id, status |-> status,
     remarks |-> remarks]

\* the student query without its category condition
MatchingStudents_AnyCategory(department_id, cat_val) ==
    {s \in DOMAIN students : students[s].department_id = department_id}

\* select(Student).where(department_id == d, category == c)
MatchingStudents(department_id, cat_val) ==
    {s \in DOMAIN students : /\ students[s].department_id = department_id
                             /\ students[s].category = cat_val}

\* the record lookup matching on the session alone
RecordsOf_AnyStudent(session_id, student_id) ==
    {i \in DOMAIN records : records[i].session_id = session_id}

\* select(AttendanceRecord).where(session_id == sid, student_id == student)
RecordsOf(session_id, student_id) ==
    {i \in DOMAIN records : /\ records[i].session_id = session_id
                            /\ records[i].student_id = student_id}

\* s.records, the relationship of a session to its records
SessionRecords(session_id) ==
    {i \in DOMAIN records : records[i].session_id = session_id}

\* the records a request body carries: AttendanceRecordCreate items
RecordCreates ==
    [student_id : StudentIds, present : PresentValues, notes : Notes]

\* the ids a request may name: the stored ones and one that is stored nowhere
SessionIds == DOMAIN sessions \cup {Len(sessions) + 1}

\* present -> status, as add_record, collect and the manual create map it
StatusOfPresent(present) == IF Truthy(present) THEN PRESENT ELSE ABSENT

-----------------------------------------------------------------------------
(* 1. POST /sessions/ : create_attendance_session *)

\* provided_map: student_id -> the last override the body gives for it
ProvidedIds(recs) == {recs[i].student_id : i \in DOMAIN recs}

ProvidedMap(recs, s) ==
    LET i == CHOOSE k \in DOMAIN recs :
                 /\ recs[k].student_id = s
                 /\ \A j \in DOMAIN recs : recs[j].student_id = s => j <= k
    IN  recs[i]

\* the loop that marks every matching student ABSENT
InitialRecord_AllAbsent(new_id, s, recs) == AttendanceRecord(new_id, s, ABSENT, NoText)

\* the record the loop over the matching students builds for student s
InitialRecord(new_id, s, recs) ==
    IF s \in ProvidedIds(recs)
    THEN AttendanceRecord(new_id, s, StatusOfPresent(ProvidedMap(recs, s).present),
                          ProvidedMap(recs, s).notes)
    ELSE AttendanceRecord(new_id, s, ABSENT, NoText)

\* the session row filed under the department's first program
ManualSession_UnderProgram(date, department_id, cat_val, type) ==
    AttendanceSession(date, department_id, department_id, cat_val, type)

\* new_session = AttendanceSession(date, department_id, target_category, type,
\* created_by_id): program_id keeps its default, None
ManualSession(date, department_id, cat_val, type) ==
    AttendanceSession(date, department_id, NoId, cat_val, type)

\* the lookup that finds a department whatever id is asked for
DepartmentExists_Always(department_id) == TRUE

\* select(Department).where(Department.id == department_id): a row is found
DepartmentExists(department_id) == department_id \in DOMAIN departments

create_attendance_session(u, date, department_id, category, type, recs) ==
    LET op == "create_attendance_session"
        new_id == Len(sessions) + 1
        matched == SetToSeq(MatchingStudents(department_id, category))
        new_records == [i \in 1..Len(matched) |-> InitialRecord(new_id, matched[i], recs)]
    IN
    /\ get_current_active_user(u)
    /\ IF ~check_department_permission(u, department_id)
       THEN /\ last' = Response(op, u, "forbidden", department_id, NoId, NoId, {}, {}, Len(recs))
            /\ UNCHANGED <<tables, sessions, records>>
       ELSE IF ~DepartmentExists(department_id)
       THEN /\ last' = Response(op, u, "not_found", department_id, NoId, NoId, {}, {}, Len(recs))
            /\ UNCHANGED <<tables, sessions, records>>
       ELSE /\ Len(sessions) < MaxSessions
            /\ Len(records) + Len(matched) <= MaxRecords
            /\ sessions' = Append(sessions, ManualSession(date, department_id, category, type))
            /\ records' = records \o new_records
            /\ last' = Response(op, u, "created", department_id, new_id, NoId, {new_id},
                           {Len(records) + i : i \in 1..Len(matched)}, Len(recs))
            /\ UNCHANGED tables

-----------------------------------------------------------------------------
(* 2. POST /sessions/batch : create_attendance_batch *)

\* the fields the request schemas declare; the validated object has these
\* attributes and no other (fields the client sends beyond them are dropped)
AttendanceBatchCreate == {"date", "department_id", "category", "type", "records"}

AttendanceRecordInput == {"student_id", "present", "notes"}

\* the JSON bodies a client sends to the batch endpoint
BatchItems ==
    [student_id : {1}, present : {"False"}, notes : {NoText}, status : {PRESENT, EXCUSED}]

BatchBodies ==
    [program_id : ProgramIds, date : Dates, department_id : {1, 2},
     category : ReqCategories, type : ProgramType,
     records : {<<>>} \cup {<<r>> : r \in BatchItems}]

\* request validation: the object the handler receives as `data`
ValidateBatch(body) ==
    [f \in AttendanceBatchCreate |->
        IF f = "records"
        THEN [i \in DOMAIN body.records |->
                 [g \in AttendanceRecordInput |-> body.records[i][g]]]
        ELSE body[f]]

\* select(AttendanceSession).where(program_id, date, target_category)
ExistingSessions(program_id, date, cat_val) ==
    {i \in DOMAIN sessions : /\ sessions[i].program_id = program_id
                             /\ sessions[i].date = date
                             /\ sessions[i].target_category = cat_val}

create_attendance_batch(u, body) ==
    LET op == "create_attendance_batch"
        data == ValidateBatch(body)
        n == Len(body.records)
        new_id == Len(sessions) + 1
        Fail(result, dept) ==
            /\ last' = Response(op, u, result, dept, NoId, NoId, {}, {}, n)
            /\ UNCHANGED <<tables, sessions, records>>
    IN
    /\ get_current_active_user(u)
    /\ IF "program_id" \notin DOMAIN data
       THEN Fail("error", NoId)                       \* data.program_id: AttributeError
       ELSE IF data.program_id \notin DOMAIN programs
       THEN Fail("not_found", NoId)
       ELSE LET program == programs[data.program_id]
                existing == ExistingSessions(data.program_id, data.date, data.category)
            IN
            IF ~check_department_permission(u, program.department_id)
            THEN Fail("forbidden", program.department_id)
            ELSE IF Cardinality(existing) > 1
            THEN Fail("error", program.department_id)  \* scalar_one_or_none: MultipleResultsFound
            ELSE IF existing # {}
            THEN Fail("duplicate", program.department_id)
            ELSE IF \E i \in DOMAIN data.records : "status" \notin DOMAIN data.records[i]
            THEN Fail("error", program.department_id)  \* r.status: AttributeError, nothing committed
            ELSE /\ Len(sessions) < MaxSessions
                 /\ Len(records) + n <= MaxRecords
                 /\ sessions' = Append(sessions,
                        AttendanceSession(data.date, program.department_id, data.program_id,
                                          data.category, program.type))
                 /\ records' = records \o
                        [i \in 1..n |-> AttendanceRecord(new_id, data.records[i].student_id,
                                            data.records[i].status, data.records[i].notes)]
                 /\ last' = Response(op, u, "created", program.department_id, new_id, NoId,
                                {new_id}, {Len(records) + i : i \in 1..n}, n)
                 /\ UNCHANGED tables

-----------------------------------------------------------------------------
(* 4. GET /sessions/ : list_attendance_sessions *)

\* the filters are optional: NoId / NoText when the query leaves them out
list_attendance_sessions(u, department_id, category, type) ==
    LET q == {i \in DOMAIN sessions :
                 /\ department_id # NoId => sessions[i].department_id = department_id
                 /\ category # NoText => sessions[i].target_category = category
                 /\ type # NoText => sessions[i].type = type}
    IN
    /\ get_current_active_user(u)
    /\ last' = Response("list_attendance_sessions", u, "ok", NoId, NoId, NoId, q,
                   UNION {SessionRecords(i) : i \in q}, 0)
    /\ UNCHANGED <<tables, sessions, records>>

(* 5. GET /sessions/{session_id} : get_session_details *)

get_session_details(u, session_id) ==
    /\ get_current_active_user(u)
    /\ IF session_id \notin DOMAIN sessions
       THEN last' = Response("get_session_details", u, "not_found", NoId, session_id, NoId,
                        {}, {}, 0)
       ELSE last' = Response("get_session_details", u, "ok", NoId, session_id, NoId,
                        {session_id}, SessionRecords(session_id), 0)
    /\ UNCHANGED <<tables, sessions, records>>

-----------------------------------------------------------------------------
(* 6. POST /sessions/{session_id}/records/ : add_record *)

add_record(u, department_id, session_id, record) ==
    LET op == "add_record"
        status_val == StatusOfPresent(record.present)
    IN
    /\ get_current_active_user(u)
    /\ IF ~require_manager_department_access(department_id, u)
       THEN /\ last' = Response(op, u, "forbidden", department_id, session_id,
                           record.student_id, {}, {}, 1)
            /\ UNCHANGED <<tables, sessions, records>>
       ELSE IF session_id \notin DOMAIN sessions
       THEN /\ last' = Response(op, u, "not_found", department_id, session_id,
                           record.student_id, {}, {}, 1)
            /\ UNCHANGED <<tables, sessions, records>>
       ELSE /\ Len(records) < MaxRecords
            /\ records' = Append(records,
                   AttendanceRecord(session_id, record.student_id, status_val, record.notes))
            /\ last' = Response(op, u, "created", department_id, session_id,
                           record.student_id, {}, {Len(records) + 1}, 1)
            /\ UNCHANGED <<tables, sessions>>

(* 7. POST /sessions/{session_id}/collect/ : collect_attendance *)

collect_attendance(u, department_id, session_id, record) ==
    LET op == "collect_attendance"
        status_val == StatusOfPresent(record.present)
        existing == RecordsOf(session_id, record.student_id)
        Fail(result) ==
            /\ last' = Response(op, u, result, department_id, session_id,
                           record.student_id, {}, {}, 1)
            /\ UNCHANGED <<tables, sessions, records>>
    IN
    /\ get_current_active_user(u)
    /\ IF ~require_manager_department_access(department_id, u)
       THEN Fail("forbidden")
       ELSE IF session_id \notin DOMAIN sessions
       THEN Fail("not_found")
       ELSE IF Cardinality(existing) > 1
       THEN Fail("error")                            \* scalar_one_or_none: MultipleResultsFound
       ELSE IF existing # {}
       THEN LET i == CHOOSE k \in existing : TRUE
            IN  /\ records' = [records EXCEPT ![i].status = status_val,
                                              ![i].remarks = record.notes]
                /\ last' = Response(op, u, "updated", department_id, session_id,
                               record.student_id, {}, {i}, 1)
                /\ UNCHANGED <<tables, sessions>>
       ELSE /\ Len(records) < MaxRecords
            /\ records' = Append(records,
                   AttendanceRecord(session_id, record.student_id, status_val, record.notes))
            /\ last' = Response(op, u, "created", department_id, session_id,
                           record.student_id, {}, {Len(records) + 1}, 1)
            /\ UNCHANGED <<tables, sessions>>

-----------------------------------------------------------------------------------------------------------------------------------------------------
(* The session endpoints, one request at a time, from an empty attendance log *)

\* a super admin, an admin and a manager, the last two assigned to department 1
FixedUsers ==
    /\ users = (1 :> [email |-> "a", role |-> SUPER_ADMIN, is_active |-> TRUE])
               @@ (2 :> [email |-> "b", role |-> ADMIN, is_active |-> TRUE])
               @@ (3 :> [email |-> "c", role |-> MANAGER, is_active |-> TRUE])
    /\ user_departments = {<<2, 1>>, <<3, 1>>}

Init ==
    /\ FixedUsers
    /\ FixedTables
    /\ EmptyLog

\* the overrides a create request carries here: none, or one marking a student present
SessionOverrides ==
    {<<>>} \cup {<<r>> : r \in [student_id : StudentIds, present : {"True"}, notes : {"late"}]}

Next ==
    \/ \E u \in UserIds, date \in Dates, d \in DeptIds, c \in ReqCategories,
          recs \in SessionOverrides :
          create_attendance_session(u, date, d, c, "REGULAR", recs)
    \/ \E u \in UserIds, body \in BatchBodies : create_attendance_batch(u, body)
    \/ \E u \in UserIds, d \in DeptIds \cup {NoId}, c \in ReqCategories \cup {NoText},
          t \in ProgramType \cup {NoText} : list_attendance_sessions(u, d, c, t)
    \/ \E u \in UserIds, sid \in SessionIds : get_session_details(u, sid)

Spec == Init /\ [][Next]_vars

-----------------------------------------------------------------------------
(* The record endpoints, one request at a time, on a session of department 2 *)

\* the state of Spec after the super admin posted a session for (department 2,
\* YOUTH) with no overrides: student 3 matches and is recorded ABSENT
InitRecords ==
    /\ FixedUsers
    /\ FixedTables
    /\ sessions = <<AttendanceSession(1, 2, NoId, "YOUTH", "REGULAR")>>
    /\ records = <<AttendanceRecord(1, 3, ABSENT, NoText)>>
    /\ last = Response("create_attendance_session", 1, "created", 2, 1, NoId, {1}, {1}, 0)

\* the records posted one at a time: for student 3 of the session's department and
\* for student 1 of department 1
RecordRequests == [student_id : {1, 3}, present : PresentValues, notes : Notes]

NextRecords ==
    \/ \E u \in UserIds, d \in {1, 2}, sid \in SessionIds, r \in RecordRequests :
          /\ add_record(u, d, sid, r)
          /\ Len(records') <= MaxRecordRows
    \/ \E u \in UserIds, d \in {1, 2}, sid \in SessionIds, r \in RecordRequests :
          /\ collect_attendance(u, d, sid, r)
          /\ Len(records') <= MaxRecordRows
    \/ \E u \in UserIds, sid \in SessionIds : get_session_details(u, sid)

SpecRecords == InitRecords /\ [][NextRecords]_vars

-----------------------------------------------------------------------------
(* Soft delete of a session.  The handler is not among the endpoints of    *)
(* attendance.py; it is written from its description: the session is looked *)
(* up, the gate decides on the session's department, and is_active becomes  *)
(* false; the records are left alone.                                       *)

soft_delete_session(u, session_id) ==
    /\ get_current_active_user(u)
    /\ IF session_id \notin DOMAIN sessions
       THEN /\ last' = Response("soft_delete_session", u, "not_found", NoId, session_id,
                           NoId, {}, {}, 0)
            /\ UNCHANGED sessions
       ELSE IF ~check_department_permission(u, sessions[session_id].department_id)
       THEN /\ last' = Response("soft_delete_session", u, "forbidden",
                           sessions[session_id].department_id, session_id, NoId, {}, {}, 0)
            /\ UNCHANGED sessions
       ELSE /\ sessions' = [sessions EXCEPT ![session_id].is_active = FALSE]
            /\ last' = Response("soft_delete_session", u, "deleted",
                           sessions[session_id].department_id, session_id, NoId,
                           {session_id}, SessionRecords(session_id), 0)
    /\ UNCHANGED <<tables, records>>

NextSoftDelete ==
    \/ \E u \in UserIds, date \in Dates, d \in DeptIds, c \in ReqCategories,
          recs \in SessionOverrides :
          create_attendance_session(u, date, d, c, "REGULAR", recs)
    \/ \E u \in UserIds, sid \in SessionIds : soft_delete_session(u, sid)
    \/ \E u \in UserIds, d \in DeptIds \cup {NoId}, c \in ReqCategories \cup {NoText},
          t \in ProgramType \cup {NoText} : list_attendance_sessions(u, d, c, t)
    \/ \E u \in UserIds, sid \in SessionIds : get_session_details(u, sid)

SpecSoftDelete == Init /\ [][NextSoftDelete]_vars

-----------------------------------------------------------------------------
(* Departments: POST /departments/ and PUT /departments/{department_id} *)

MaxDepartments == 3    \* rows of departments

DepartmentNames == {"", "QA", "HR"}
Descriptions == {NoText, "d"}

\* DepartmentCreate: name, description
DepartmentCreate == [name : DepartmentNames, description : Descriptions]

\* DepartmentUpdate: the fields the body sets (exclude_unset); a name may be null
DepartmentUpdate ==
    {[f \in F |-> IF f = "name" THEN n ELSE d] :
        n \in DepartmentNames \cup {NoText}, d \in Descriptions,
        F \in SUBSET {"name", "description"}}

\* the dependency that lets every active user through
get_current_super_admin_Anyone(u) == TRUE

\* TRUE when the dependency returns the user, FALSE when it raises 403
get_current_super_admin(u) == users[u].role = SUPER_ADMIN

\* the id a new row of a table gets
NextId(table) ==
    IF DOMAIN table = {} THEN 1
    ELSE (CHOOSE m \in DOMAIN table : \A k \in DOMAIN table : k <= m) + 1

\* the lookup by name that finds no row
DepartmentsNamed_Nowhere(name) == {}

\* select(Department).where(Department.name == name)
DepartmentsNamed(name) == {d \in DOMAIN departments : departments[d].name = name}

\* what the departments table accepts at commit: name is NOT NULL and unique
DepartmentsCommit(rows) ==
    /\ \A d \in DOMAIN rows : rows[d].name # NoText
    /\ \A d, e \in DOMAIN rows : rows[d].name = rows[e].name => d = e

OtherThanDepartments ==
    <<users, user_departments, programs, students, student_sections, sessions, records,
      tokens, refreshed, inflight>>

create_department(u, department_data) ==
    LET op == "create_department"
        new_id == NextId(departments)
        rows == departments @@ (new_id :> [name |-> department_data.name,
                                           description |-> department_data.description])
        Fail(result) == /\ last' = Response(op, u, result, NoId, NoId, NoId, {}, {}, 0)
                        /\ UNCHANGED departments
    IN
    /\ get_current_active_user(u)
    /\ IF ~get_current_super_admin(u) THEN Fail("forbidden")
       ELSE IF Cardinality(DepartmentsNamed(department_data.name)) > 1 THEN Fail("error")
       ELSE IF DepartmentsNamed(department_data.name) # {} THEN Fail("bad_request")
       ELSE IF ~DepartmentsCommit(rows) THEN Fail("error")
       ELSE /\ Cardinality(DOMAIN departments) < MaxDepartments
            /\ departments' = rows
            /\ last' = Response(op, u, "created", new_id, NoId, NoId, {}, {}, 0)
    /\ UNCHANGED OtherThanDepartments

update_department(u, department_id, department_update) ==
    LET op == "update_department"
        Set(field) == field \in DOMAIN department_update
        name == IF Set("name") THEN department_update["name"] ELSE NoText
        rows == [departments EXCEPT ![department_id] =
                    [name |-> IF Set("name") THEN department_update["name"] ELSE @.name,
                     description |-> IF Set("description")
                                     THEN department_update["description"]
                                     ELSE @.description]]
        Fail(result) == /\ last' = Response(op, u, result, department_id, NoId, NoId,
                                       {}, {}, 0)
                        /\ UNCHANGED departments
    IN
    /\ get_current_active_user(u)
    /\ IF ~get_current_super_admin(u) THEN Fail("forbidden")
       ELSE IF department_id \notin DOMAIN departments THEN Fail("not_found")
       ELSE IF /\ name \notin {NoText, ""}
               /\ name # departments[department_id].name
               /\ Cardinality(DepartmentsNamed(name)) > 1 THEN Fail("error")
       ELSE IF /\ name \notin {NoText, ""}
               /\ name # departments[department_id].name
               /\ DepartmentsNamed(name) # {} THEN Fail("bad_request")
       ELSE IF ~DepartmentsCommit(rows) THEN Fail("error")
       ELSE /\ departments' = rows
            /\ last' = Response(op, u, "updated", department_id, NoId, NoId, {}, {}, 0)
    /\ UNCHANGED OtherThanDepartments

NextDepartments ==
    \/ \E u \in UserIds, data \in DepartmentCreate : create_department(u, data)
    \/ \E u \in UserIds, d \in DeptIds, upd \in DepartmentUpdate :
          update_department(u, d, upd)

SpecDepartments == Init /\ [][NextDepartments]_vars

-----------------------------------------------------------------------------
(* Students: POST /students/, GET /students/ and GET /students/detailed/ *)

MaxStudents == 4    \* rows of students
MaxUpdatedStudents == 1    \* rows of students while students are updated

\* the one-to-one tables a student row owns
StudentSections == {"address", "family", "education", "spirituality", "health"}

\* a row of a section table; details stands for its columns
SectionRow(section, student_id, details) ==
    [section |-> section, student_id |-> student_id, details |-> details]

\* the keys of CategoryDetails
CategoryKeys == {"child", "adult", "youth", "adolescent"}

\* ChildInput, AdultInput and YouthInput as the sections they carry (the required
\* ones, with or without health); {} is a key left at None
ChildInput == {{"family"}, {"family", "health"}}
AdultInput == {{"education", "spirituality"}}
YouthInput == {{"education", "spirituality"}}

CategoryDetails ==
    [child : ChildInput \cup {{}}, adult : AdultInput \cup {{}},
     youth : YouthInput \cup {{}}, adolescent : {{"family"}, {}}]

StudentCreate ==
    [department_id : DeptIds, category : StudentCategory, category_details : CategoryDetails]

\* StudentCreate.validate_category_data: TRUE when it returns self
validate_category_data(student_in) ==
    LET cat == student_in.category
        details == student_in.category_details
    IN  /\ ~(cat = "CHILDREN" /\ details.child = {})
        /\ ~(cat = "ADULT" /\ details.adult = {})
        /\ ~(cat = "YOUTH" /\ details.youth = {})

\* step 5 of create_student: the details of the student's category
CategorySpecificDetails(student_in) ==
    IF student_in.category = "CHILDREN" THEN student_in.category_details.child
    ELSE IF student_in.category = "ADULT" THEN student_in.category_details.adult
    ELSE IF student_in.category = "YOUTH" THEN student_in.category_details.youth
    ELSE IF student_in.category = "ADOLESCENT" THEN student_in.category_details.adolescent
    ELSE {}

OtherThanStudents ==
    <<users, user_departments, departments, programs, sessions, records, tokens,
      refreshed, inflight>>

create_student(u, student_in) ==
    LET op == "create_student"
        new_id == NextId(students)
        details == CategorySpecificDetails(student_in)
        Fail(result) == /\ last' = Response(op, u, result, student_in.department_id, NoId,
                                       NoId, {}, {}, 0)
                        /\ UNCHANGED <<students, student_sections>>
    IN
    /\ get_current_active_user(u)
    /\ IF ~validate_category_data(student_in) THEN Fail("validation")
       \* check_admin_department_access is handed current_user.id, an int, and
       \* reads its .role: AttributeError
       ELSE IF users[u].role # SUPER_ADMIN THEN Fail("error")
       ELSE IF student_in.department_id \notin DOMAIN departments THEN Fail("not_found")
       ELSE /\ Cardinality(DOMAIN students) < MaxStudents
            /\ students' = students @@
                   (new_id :> [department_id |-> student_in.department_id,
                               category |-> student_in.category])
            /\ student_sections' = student_sections \cup
                   {SectionRow(s, new_id, "created") : s \in {"address"} \cup details}
            /\ last' = Response(op, u, "created", student_in.department_id, NoId, new_id,
                           {new_id}, {}, 0)
    /\ UNCHANGED OtherThanStudents

\* the test that lets every department filter through
AccessDenied_Never(user_dept_ids, department_id) == FALSE

\* if department_id: if department_id not in user_dept_ids: raise 403
AccessDenied(user_dept_ids, department_id) ==
    department_id # NoId /\ department_id \notin user_dept_ids

\* the rows a list request selects: ForbiddenFilter when it raises 403
ListedStudents(u, department_id, category) ==
    LET user_dept_ids == get_user_departments(u)
        InCategory(S) == {s \in S : category = NoText \/ students[s].category = category}
        all == DOMAIN students
    IN  IF users[u].role # SUPER_ADMIN
        THEN IF user_dept_ids = {} THEN {}
             ELSE IF department_id # NoId
                  THEN InCategory({s \in all : students[s].department_id = department_id})
                  ELSE InCategory({s \in all : students[s].department_id \in user_dept_ids})
        ELSE IF department_id # NoId
             THEN InCategory({s \in all : students[s].department_id = department_id})
             ELSE InCategory(all)

ListStudents(op, u, department_id, category) ==
    /\ get_current_active_user(u)
    /\ IF /\ users[u].role # SUPER_ADMIN
          /\ get_user_departments(u) # {}
          /\ AccessDenied(get_user_departments(u), department_id)
       THEN last' = Response(op, u, "forbidden", department_id, NoId, NoId, {}, {}, 0)
       ELSE last' = Response(op, u, "ok", department_id, NoId, NoId,
                        ListedStudents(u, department_id, category), {}, 0)
    /\ UNCHANGED <<OtherThanStudents, students, student_sections>>

list_students(u, department_id, category) ==
    ListStudents("list_students", u, department_id, category)

list_students_detailed(u, department_id, category) ==
    ListStudents("list_students_detailed", u, department_id, category)

\* ADMIN 2 is assigned to department 1; MANAGER 3 is assigned to no department
InitStudents ==
    /\ users = (1 :> [email |-> "a", role |-> SUPER_ADMIN, is_active |-> TRUE])
               @@ (2 :> [email |-> "b", role |-> ADMIN, is_active |-> TRUE])
               @@ (3 :> [email |-> "c", role |-> MANAGER, is_active |-> TRUE])
    /\ user_departments = {<<2, 1>>}
    /\ FixedTables
    /\ EmptyLog

NextStudents ==
    \/ \E u \in UserIds, student_in \in StudentCreate : create_student(u, student_in)
    \/ \E u \in UserIds, d \in DeptIds \cup {NoId}, c \in {NoText, "CHILDREN"} :
          list_students(u, d, c)
    \/ \E u \in UserIds, d \in DeptIds \cup {NoId}, c \in {NoText, "CHILDREN"} :
          list_students_detailed(u, d, c)

SpecStudents == InitStudents /\ [][NextStudents]_vars

-----------------------------------------------------------------------------
(* Users: POST /users/, POST /users/admin/create-manager,                   *)
(* POST /users/super-admin/create-admin, PUT and DELETE /users/{user_id}    *)

MaxUsers == 4    \* rows of users

CallerIds == 1..4
Emails == {"c", "d"}              \* "c" is registered from the start
DepartmentIdLists == {<<>>, <<1>>, <<1, 3>>, <<2, 2>>}

\* UserCreate: email, role, department_ids (None and [] are both <<>>)
UserCreate == [email : Emails, role : UserRole, department_ids : DepartmentIdLists]

\* UserUpdate: the fields the body sets; department_ids unset is None
UserUpdate ==
    {[f \in F |-> IF f = "role" THEN r ELSE ids] :
        r \in {SUPER_ADMIN}, ids \in {<<>>, <<2>>, <<3>>},
        F \in SUBSET {"role", "department_ids"}}

\* the dependency that lets every assigned user through, whatever the role
require_admin_department_access_AnyAssigned(department_id, u) ==
    check_admin_department_access(u, department_id)

\* TRUE when the dependency returns (user, session), FALSE when it raises 403
require_admin_department_access(department_id, u) ==
    IF users[u].role = SUPER_ADMIN
    THEN TRUE
    ELSE IF users[u].role # ADMIN
         THEN FALSE
         ELSE check_admin_department_access(u, department_id)

\* select(User).where(User.email == email)
UsersWithEmail(email) == {i \in DOMAIN users : users[i].email = email}

\* the validation that takes every list of ids for stored departments
AllDepartmentsFound_Unchecked(department_ids) == TRUE

\* len(departments) == len(department_ids), departments being the rows whose id
\* is in the list
AllDepartmentsFound(department_ids) ==
    Cardinality({d \in DOMAIN departments :
                    \E i \in DOMAIN department_ids : department_ids[i] = d})
        = Len(department_ids)

\* the link rows a list of ids adds for a user
LinkRows(user_id, department_ids) ==
    {<<user_id, department_ids[i]>> : i \in DOMAIN department_ids}

\* what the link table accepts at commit: (user_id, department_id) is its primary
\* key, so a list naming a department twice cannot be inserted
LinkRowsCommit(department_ids) ==
    \A i, j \in DOMAIN department_ids : department_ids[i] = department_ids[j] => i = j

\* what the users table accepts at commit: email is unique
UsersCommit(rows) ==
    \A i, j \in DOMAIN rows : rows[i].email = rows[j].email => i = j

\* a delete that leaves the link rows of the user where they are
LinkRowsOfUser_None(user_id) == {}

\* the rows of the link table that the departments relationship of a user holds,
\* which the unit of work deletes with the user
LinkRowsOfUser(user_id) == {x \in user_departments : x[1] = user_id}

OtherThanUsers ==
    <<departments, programs, students, student_sections, sessions, records, tokens,
      refreshed, inflight>>

NewUser(email, role) == [email |-> email, role |-> role, is_active |-> TRUE]

create_user(u, user_data) ==
    LET op == "create_user"
        new_id == NextId(users)
        Fail(result) == /\ last' = Response(op, u, result, NoId, NoId, NoId, {}, {},
                                       Len(user_data.department_ids))
                        /\ UNCHANGED <<users, user_departments>>
    IN
    /\ get_current_active_user(u)
    /\ IF ~get_current_super_admin(u) THEN Fail("forbidden")
       ELSE IF UsersWithEmail(user_data.email) # {} THEN Fail("bad_request")
       ELSE IF user_data.role = SUPER_ADMIN /\ users[u].role # SUPER_ADMIN
       THEN Fail("forbidden")
       ELSE IF user_data.department_ids # <<>> /\ ~AllDepartmentsFound(user_data.department_ids)
       THEN Fail("not_found")
       ELSE IF ~LinkRowsCommit(user_data.department_ids) THEN Fail("error")
       ELSE /\ Cardinality(DOMAIN users) < MaxUsers
            /\ users' = users @@ (new_id :> NewUser(user_data.email, user_data.role))
            /\ user_departments' =
                   user_departments \cup LinkRows(new_id, user_data.department_ids)
            /\ last' = Response(op, u, "created", NoId, NoId, NoId, {new_id}, {},
                           Len(user_data.department_ids))
    /\ UNCHANGED OtherThanUsers

\* create_manager and create_admin after their dependency: role is the role stored
CreateAssignedUser(op, u, user_data, department_id, role) ==
    LET new_id == NextId(users)
        Fail(result) == /\ last' = Response(op, u, result, department_id, NoId, NoId,
                                       {}, {}, 0)
                        /\ UNCHANGED <<users, user_departments>>
    IN
    IF UsersWithEmail(user_data.email) # {} THEN Fail("bad_request")
    ELSE IF department_id \notin DOMAIN departments THEN Fail("not_found")
    ELSE /\ Cardinality(DOMAIN users) < MaxUsers
         /\ users' = users @@ (new_id :> NewUser(user_data.email, role))
         /\ user_departments' = user_departments \cup {<<new_id, department_id>>}
         /\ last' = Response(op, u, "created", department_id, NoId, NoId, {new_id}, {}, 0)

create_manager(u, user_data, department_id) ==
    /\ get_current_active_user(u)
    /\ IF ~require_admin_department_access(department_id, u)
       THEN /\ last' = Response("create_manager", u, "forbidden", department_id, NoId,
                           NoId, {}, {}, 0)
            /\ UNCHANGED <<users, user_departments>>
       ELSE IF user_data.role # MANAGER
       THEN /\ last' = Response("create_manager", u, "bad_request", department_id, NoId,
                           NoId, {}, {}, 0)
            /\ UNCHANGED <<users, user_departments>>
       ELSE CreateAssignedUser("create_manager", u, user_data, department_id, MANAGER)
    /\ UNCHANGED OtherThanUsers

create_admin(u, user_data, department_id) ==
    /\ get_current_active_user(u)
    /\ IF ~get_current_super_admin(u)
       THEN /\ last' = Response("create_admin", u, "forbidden", department_id, NoId,
                           NoId, {}, {}, 0)
            /\ UNCHANGED <<users, user_departments>>
       ELSE CreateAssignedUser("create_admin", u, user_data, department_id, ADMIN)
    /\ UNCHANGED OtherThanUsers

\* the update that deletes no link row
ExistingAssocs_None(user_id) == {}

\* the rows update_user selects and deletes before it adds the new ones
ExistingAssocs(user_id) == {x \in user_departments : x[1] = user_id}

update_user(u, user_id, user_update) ==
    LET op == "update_user"
        Set(field) == field \in DOMAIN user_update
        department_ids == IF Set("department_ids") THEN user_update["department_ids"]
                          ELSE <<>>
        rows == [users EXCEPT
                    ![user_id].role =
                        IF Set("role") THEN user_update["role"] ELSE @,
                    ![user_id].is_active =
                        IF Set("is_active") THEN user_update["is_active"] ELSE @]
        Fail(result) == /\ last' = Response(op, u, result, NoId, NoId, NoId, {}, {},
                                       Len(department_ids))
                        /\ UNCHANGED <<users, user_departments>>
    IN
    /\ get_current_active_user(u)
    /\ IF ~get_current_super_admin(u) THEN Fail("forbidden")
       ELSE IF user_id \notin DOMAIN users THEN Fail("not_found")
       ELSE IF department_ids # <<>> /\ ~AllDepartmentsFound(department_ids)
       THEN Fail("not_found")
       ELSE IF ~LinkRowsCommit(department_ids) \/ ~UsersCommit(rows) THEN Fail("error")
       ELSE /\ users' = rows
            /\ user_departments' =
                   IF Set("department_ids")
                   THEN (user_departments \ ExistingAssocs(user_id))
                            \cup LinkRows(user_id, department_ids)
                   ELSE user_departments
            /\ last' = Response(op, u, "updated", NoId, NoId, NoId, {user_id}, {},
                           Len(department_ids))
    /\ UNCHANGED OtherThanUsers

delete_user(u, user_id) ==
    LET op == "delete_user"
        Fail(result) == /\ last' = Response(op, u, result, NoId, NoId, NoId, {}, {}, 0)
                        /\ UNCHANGED <<users, user_departments>>
    IN
    /\ get_current_active_user(u)
    /\ IF ~get_current_super_admin(u) THEN Fail("forbidden")
       ELSE IF user_id \notin DOMAIN users THEN Fail("not_found")
       ELSE /\ users' = [i \in DOMAIN users \ {user_id} |-> users[i]]
            /\ user_departments' = user_departments \ LinkRowsOfUser(user_id)
            /\ last' = Response(op, u, "deleted", NoId, NoId, NoId, {user_id}, {}, 0)
    /\ UNCHANGED OtherThanUsers

\* the bodies of create-manager and create-admin carry no department_ids
AssignedUserCreate == {d \in UserCreate : d.department_ids = <<>>}

NextUsers ==
    \/ \E u \in CallerIds, user_data \in UserCreate : create_user(u, user_data)
    \/ \E u \in CallerIds, user_data \in AssignedUserCreate, d \in DeptIds :
          create_manager(u, user_data, d)
    \/ \E u \in CallerIds, user_data \in AssignedUserCreate, d \in DeptIds :
          create_admin(u, user_data, d)
    \/ \E u \in CallerIds, user_id \in {3, 4}, user_update \in UserUpdate :
          update_user(u, user_id, user_update)
    \/ \E u \in CallerIds, user_id \in {3, 4} : delete_user(u, user_id)

SpecUsers == Init /\ [][NextUsers]_vars

-----------------------------------------------------------------------------
(* Programs: POST, PATCH, GET and DELETE /programs/                          *)
(* The Program model declares id, name, department_id, description, type,    *)
(* created_by_id, created_at and updated_at: it has no is_active field.      *)

MaxPrograms == 4    \* rows of programs

\* ProgramCreate: department_id and type (name and description play no part)
ProgramCreate == [department_id : DeptIds, type : ProgramType]

\* ProgramUpdate: the fields the body sets (model_dump(exclude_unset=True))
ProgramUpdate ==
    {[f \in F |-> IF f = "type" THEN t ELSE a] :
        t \in ProgramType, a \in BOOLEAN, F \in SUBSET {"type", "is_active"}}

\* the fields a Program instance lets setattr write
ProgramFields == {"name", "department_id", "description", "type"}

OtherThanPrograms ==
    <<users, user_departments, departments, students, student_sections, sessions, records,
      tokens, refreshed, inflight>>

create_program(u, program_data) ==
    LET op == "create_program"
        new_id == NextId(programs)
        Fail(result) == /\ last' = Response(op, u, result, program_data.department_id, NoId,
                                       NoId, {}, {}, 0)
                        /\ UNCHANGED programs
    IN
    /\ get_current_active_user(u)
    /\ IF ~check_department_permission(u, program_data.department_id) THEN Fail("forbidden")
       ELSE IF program_data.department_id \notin DOMAIN departments THEN Fail("not_found")
       ELSE /\ Cardinality(DOMAIN programs) < MaxPrograms
            /\ programs' = programs @@
                   (new_id :> [department_id |-> program_data.department_id,
                               type |-> program_data.type])
            /\ last' = Response(op, u, "created", program_data.department_id, NoId, NoId,
                           {new_id}, {}, 0)
    /\ UNCHANGED OtherThanPrograms

update_program(u, program_id, program_data) ==
    LET op == "update_program"
        Fail(result, dept) == /\ last' = Response(op, u, result, dept, NoId, NoId,
                                             {program_id}, {}, 0)
                              /\ UNCHANGED programs
    IN
    /\ get_current_active_user(u)
    /\ IF program_id \notin DOMAIN programs THEN Fail("not_found", NoId)
       ELSE IF ~check_department_permission(u, programs[program_id].department_id)
       THEN Fail("forbidden", programs[program_id].department_id)
       \* setattr(program, "is_active", value): the model has no such field, the
       \* assignment raises ValueError before the commit
       ELSE IF \E key \in DOMAIN program_data : key \notin ProgramFields
       THEN Fail("error", programs[program_id].department_id)
       ELSE /\ programs' = [programs EXCEPT ![program_id] =
                   [f \in DOMAIN @ |-> IF f \in DOMAIN program_data
                                       THEN program_data[f] ELSE @[f]]]
            /\ last' = Response(op, u, "ok", programs[program_id].department_id, NoId,
                           NoId, {program_id}, {}, 0)
    /\ UNCHANGED OtherThanPrograms

list_programs(u, department_id, include_inactive) ==
    LET op == "list_programs"
    IN
    /\ get_current_active_user(u)
    /\ IF ~check_department_permission(u, department_id)
       THEN last' = Response(op, u, "forbidden", department_id, NoId, NoId, {}, {}, 0)
       \* Program.is_active == True: the class has no such attribute, AttributeError
       ELSE IF ~include_inactive
       THEN last' = Response(op, u, "error", department_id, NoId, NoId, {}, {}, 0)
       ELSE last' = Response(op, u, "ok", department_id, NoId, NoId,
                        {p \in DOMAIN programs : programs[p].department_id = department_id},
                        {}, 0)
    /\ UNCHANGED <<OtherThanPrograms, programs>>

delete_program(u, program_id) ==
    LET op == "delete_program"
        End(result, dept) == last' = Response(op, u, result, dept, NoId, NoId,
                                         {program_id}, {}, 0)
    IN
    /\ get_current_active_user(u)
    /\ IF program_id \notin DOMAIN programs THEN End("not_found", NoId)
       ELSE IF ~check_department_permission(u, programs[program_id].department_id)
       THEN End("forbidden", programs[program_id].department_id)
       \* program.is_active = False: the model has no such field, the assignment
       \* raises ValueError and the commit is never reached
       ELSE End("error", programs[program_id].department_id)
    /\ UNCHANGED <<OtherThanPrograms, programs>>

\* program 1 has one session with one record
InitPrograms ==
    /\ FixedUsers
    /\ FixedTables
    /\ sessions = <<AttendanceSession(1, 1, 1, "CHILDREN", "REGULAR")>>
    /\ records = <<AttendanceRecord(1, 1, ABSENT, NoText)>>
    /\ last = NoRequest

NextPrograms ==
    \/ \E u \in UserIds, program_data \in ProgramCreate : create_program(u, program_data)
    \/ \E u \in UserIds, p \in ProgramIds, program_data \in ProgramUpdate :
          update_program(u, p, program_data)
    \/ \E u \in UserIds, d \in DeptIds, include_inactive \in BOOLEAN :
          list_programs(u, d, include_inactive)
    \/ \E u \in UserIds, p \in ProgramIds : delete_program(u, p)
    \/ \E u \in UserIds, body \in {b \in BatchBodies : b.department_id = 1} :
          create_attendance_batch(u, body)

SpecPrograms == InitPrograms /\ [][NextPrograms]_vars

-----------------------------------------------------------------------------
(* Authentication: POST /auth/login, POST /auth/refresh, and the token       *)
(* dependency of every protected endpoint                                    *)

ACCESS == "access"
REFRESH == "refresh"
TokenType == {ACCESS, REFRESH}

\* the strings a client can present: a payload, signed with SECRET_KEY or not
MaxIssues == 3    \* token pairs issued

\* datetime.utcnow(): the clock moves with every pair issued
utcnow == Cardinality(tokens) \div 2 + 1

TokenStrings == [sub : {"1", "2", "3"}, type : TokenType, exp : 1..MaxIssues]

Passwords == {"pw", "bad"}

\* verify_password: every user of the model registered with the password "pw"
verify_password(plain_password, user_id) == plain_password = "pw"

\* str(subject) of a user id, and int(user_id_str) of a digit string
Digits == <<"1", "2", "3", "4">>
str(n) == Digits[n]
int(s) == CHOOSE n \in DOMAIN Digits : Digits[n] = s

\* create_access_token(subject): {"exp": expire, "sub": str(subject), "type": "access"}
create_access_token(subject) == [sub |-> str(subject), type |-> ACCESS, exp |-> utcnow]

\* create_refresh_token(subject): {"exp": expire, "sub": str(subject), "type": "refresh"}
create_refresh_token(subject) == [sub |-> str(subject), type |-> REFRESH, exp |-> utcnow]

\* no payload (decode_token returns None)
NoPayload == [sub |-> NoText, type |-> NoText, exp |-> 0]

\* the decoder of a server that remembers the refresh tokens it has accepted
decode_token_OnceOnly(token) ==
    IF token \in tokens /\ \A i \in DOMAIN refreshed : refreshed[i] # token
    THEN token
    ELSE NoPayload

\* decode_token: a token is modelled by its payload, and its signature verifies when
\* the server issued it; None for any other
decode_token(token) == IF token \in tokens THEN token ELSE NoPayload

\* the token check that takes a token of either type
AccessTokenRequired_AnyType(payload) == TRUE

\* token_type != "access" raises 401
AccessTokenRequired(payload) == payload.type = ACCESS

\* get_current_user: the id of the user it returns, NoId when it raises 401
get_current_user(token) ==
    LET payload == decode_token(token)
    IN  IF payload = NoPayload THEN NoId
        ELSE IF ~AccessTokenRequired(payload) THEN NoId
        ELSE IF int(payload.sub) \notin DOMAIN users THEN NoId
        ELSE int(payload.sub)

OtherThanTokens ==
    <<users, user_departments, departments, programs, students, student_sections,
      sessions, records, inflight>>

\* the response fields of the authentication requests: recs is the token the
\* request presents, listed the tokens the response carries
login(email, password) ==
    LET op == "login"
        found == UsersWithEmail(email)
        user == CHOOSE i \in found : TRUE
        Fail(result) == /\ last' = Response(op, NoId, result, NoId, NoId, NoId, {}, {}, 0)
                        /\ UNCHANGED tokens
        issued == {create_access_token(user), create_refresh_token(user)}
    IN
    /\ UNCHANGED refreshed
    /\ IF found = {} THEN Fail("unauthorized")
       ELSE IF ~verify_password(password, user) THEN Fail("unauthorized")
       ELSE IF ~users[user].is_active THEN Fail("bad_request")
       ELSE /\ Cardinality(tokens) < 2 * MaxIssues
            /\ tokens' = tokens \cup issued
            /\ last' = Response(op, user, "ok", NoId, NoId, NoId, issued, {}, 0)
    /\ UNCHANGED OtherThanTokens

refresh_token(token) ==
    LET op == "refresh_token"
        payload == decode_token(token)
        user == int(payload.sub)
        Fail(result) == /\ last' = Response(op, NoId, result, NoId, NoId, NoId, {},
                                       {token}, 0)
                        /\ UNCHANGED <<tokens, refreshed>>
        issued == {create_access_token(user), create_refresh_token(user)}
    IN
    /\ IF payload = NoPayload THEN Fail("unauthorized")
       ELSE IF payload.type # REFRESH THEN Fail("unauthorized")
       ELSE IF user \notin DOMAIN users \/ ~users[user].is_active THEN Fail("unauthorized")
       ELSE /\ Cardinality(tokens) < 2 * MaxIssues
            /\ tokens' = tokens \cup issued
            /\ refreshed' = Append(refreshed, token)
            /\ last' = Response(op, user, "ok", NoId, NoId, NoId, issued, {token}, 0)
    /\ UNCHANGED OtherThanTokens

\* GET /users/me, a protected endpoint with no check beyond the token dependencies
get_current_user_info(token) ==
    LET op == "get_current_user_info"
        user == get_current_user(token)
        End(u, result) == last' = Response(op, u, result, NoId, NoId, NoId, {}, {token}, 0)
    IN
    /\ IF user = NoId THEN End(NoId, "unauthorized")
       ELSE IF ~get_current_active_user(user) THEN End(user, "forbidden")
       ELSE End(user, "ok")
    /\ UNCHANGED <<OtherThanTokens, tokens, refreshed>>

\* UserUpdate bodies that set is_active and nothing else
ActivityUpdate == {[f \in {"is_active"} |-> a] : a \in BOOLEAN}

\* MANAGER 3 is inactive
InitAuth ==
    /\ users = (1 :> [email |-> "a", role |-> SUPER_ADMIN, is_active |-> TRUE])
               @@ (2 :> [email |-> "b", role |-> ADMIN, is_active |-> TRUE])
               @@ (3 :> [email |-> "c", role |-> MANAGER, is_active |-> FALSE])
    /\ user_departments = {<<2, 1>>, <<3, 1>>}
    /\ FixedTables
    /\ EmptyLog

NextAuth ==
    \/ \E email \in {"a", "b", "c", "d"}, password \in Passwords : login(email, password)
    \/ \E token \in TokenStrings : refresh_token(token)
    \/ \E token \in TokenStrings : get_current_user_info(token)
    \/ \E token \in TokenStrings, user_id \in {2, 3} :
          /\ get_current_user(token) # NoId
          /\ delete_user(get_current_user(token), user_id)
    \/ \E token \in TokenStrings, user_id \in {2, 3}, user_update \in ActivityUpdate :
          /\ get_current_user(token) # NoId
          /\ update_user(get_current_user(token), user_id, user_update)

SpecAuth == InitAuth /\ [][NextAuth]_vars

-----------------------------------------------------------------------------
(* Concurrent collect requests.  Every request has its own database session; *)
(* the handler gives way at each await, so another request can run between   *)
(* its lookup (attendance.py:337-344) and its commit (346-363).              *)

MaxRaceRecords == 3    \* rows of attendance_records while collects run concurrently

Slots == 1..2

RaceRequests == [student_id : {1, 3}, present : {"True", "False"}, notes : {NoText}]

\* the commit that looks the record up again
Existing_Reread(slot) ==
    RecordsOf(inflight[slot].sid, inflight[slot].record.student_id)

\* `existing`, the local variable of the request: what its lookup returned
Existing(slot) == inflight[slot].existing

\* dependencies, session lookup and record lookup of collect_attendance
collect_attendance_lookup(slot, u, department_id, session_id, record) ==
    LET op == "collect_attendance"
        existing == RecordsOf(session_id, record.student_id)
        Fail(result) ==
            /\ last' = Response(op, u, result, department_id, session_id,
                           record.student_id, {}, {}, 1)
            /\ UNCHANGED inflight
    IN
    /\ inflight[slot] = Idle
    /\ get_current_active_user(u)
    /\ IF ~require_manager_department_access(department_id, u)
       THEN Fail("forbidden")
       ELSE IF session_id \notin DOMAIN sessions
       THEN Fail("not_found")
       ELSE IF Cardinality(existing) > 1
       THEN Fail("error")                            \* scalar_one_or_none: MultipleResultsFound
       ELSE /\ inflight' = [inflight EXCEPT ![slot] =
                   [stage |-> "looked_up", user |-> u, dept |-> department_id,
                    sid |-> session_id, record |-> record, existing |-> existing]]
            /\ UNCHANGED last
    /\ UNCHANGED <<OtherThanInflight, sessions, records>>

\* the rest of collect_attendance: update `existing`, or add a record, and commit
collect_attendance_commit(slot) ==
    LET op == "collect_attendance"
        req == inflight[slot]
        status_val == StatusOfPresent(req.record.present)
    IN
    /\ req.stage = "looked_up"
    /\ IF Existing(slot) # {}
       THEN LET i == CHOOSE k \in Existing(slot) : TRUE
            IN  /\ records' = [records EXCEPT ![i].status = status_val,
                                              ![i].remarks = req.record.notes]
                /\ last' = Response(op, req.user, "updated", req.dept, req.sid,
                               req.record.student_id, {}, {i}, 1)
       ELSE /\ Len(records) < MaxRaceRecords
            /\ records' = Append(records,
                   AttendanceRecord(req.sid, req.record.student_id, status_val,
                                    req.record.notes))
            /\ last' = Response(op, req.user, "created", req.dept, req.sid,
                           req.record.student_id, {}, {Len(records) + 1}, 1)
    /\ inflight' = [inflight EXCEPT ![slot] = Idle]
    /\ UNCHANGED <<OtherThanInflight, sessions>>

NextRace ==
    \/ \E slot \in Slots, u \in {1, 3}, d \in {1, 2}, sid \in SessionIds,
          r \in RaceRequests : collect_attendance_lookup(slot, u, d, sid, r)
    \/ \E slot \in Slots : collect_attendance_commit(slot)

SpecRace == InitRecords /\ [][NextRace]_vars

-----------------------------------------------------------------------------
(* Manual creates with overrides: for student 1 of (department 1, CHILDREN),  *)
(* for student 3 of (department 2, YOUTH), present or not, with or without    *)
(* notes, one of them or two in one body, the second one for student 1        *)

MaxOverrideSessions == 1    \* rows of attendance_sessions while overrides are posted

OverrideItems == [student_id : {1, 3}, present : {"True", "False"}, notes : Notes]

ManualOverrides ==
    {<<>>} \cup {<<r>> : r \in OverrideItems}
           \cup {<<r1, r2>> : r1 \in OverrideItems,
                            r2 \in {r \in OverrideItems : r.student_id = 1}}

NextOverrides ==
    \/ \E u \in {1, 2}, date \in Dates, d \in DeptIds, c \in ReqCategories,
          recs \in ManualOverrides :
          /\ create_attendance_session(u, date, d, c, "REGULAR", recs)
          /\ Len(sessions') <= MaxOverrideSessions
    \/ \E u \in UserIds, sid \in SessionIds : get_session_details(u, sid)

SpecOverrides == Init /\ [][NextOverrides]_vars

-----------------------------------------------------------------------------
(* PATCH /students/{student_id} : update_student, with create_student          *)

\* AddressCreate, EducationCreate and HealthCreate have required fields;
\* FamilyCreate and SpiritualityCreate have none
RequiredSections == {"address", "education", "health"}

\* a section of the body as model_dump(exclude_unset=True) gives it: the fields
\* the request sets, here the one field "details"
SectionBodies(section) ==
    IF section \in RequiredSections
    THEN {[f \in {"details"} |-> "updated"]}
    ELSE {<<>>, [f \in {"details"} |-> "updated"]}

\* StudentUpdate: department_id and the sections the body sets, at most two of
\* them in one body
StudentUpdate ==
    UNION {{[f \in F |-> IF f = "department_id" THEN d ELSE bodies[f]] :
               d \in DeptIds, bodies \in [F \ {"department_id"} -> {<<>>, [g \in {"details"} |-> "updated"]}]} :
           F \in {G \in SUBSET ({"department_id"} \cup StudentSections) :
                     Cardinality(G \ {"department_id"}) <= 2}}

\* pydantic's validation of the body: the sections with required fields carry them
ValidStudentUpdate ==
    {b \in StudentUpdate :
        \A s \in DOMAIN b \cap StudentSections : b[s] \in SectionBodies(s)}

\* db_student.address, .family, ...: the rows of a section a student owns
SectionRows(section, student_id) ==
    {r \in student_sections : r.section = section /\ r.student_id = student_id}

\* the helper that adds a row whether or not the student has one
update_section_AlwaysInsert(section, student_id, body) ==
    IF body = <<>>
    THEN SectionRows(section, student_id)
    ELSE SectionRows(section, student_id)
            \cup {SectionRow(section, student_id, body["details"])}

\* update_section: the rows of a section after the helper ran with the body's
\* section.  An empty dump returns at once; an existing row is set field by
\* field; a row is added when there is none.
update_section(section, student_id, body) ==
    IF body = <<>>
    THEN SectionRows(section, student_id)
    ELSE IF SectionRows(section, student_id) # {}
    THEN {[r EXCEPT !.details = body["details"]] : r \in SectionRows(section, student_id)}
    ELSE {SectionRow(section, student_id, body["details"])}

\* the unique index on student_id of each section table
SectionsCommit(rows) ==
    \A r1, r2 \in rows :
        (r1.section = r2.section /\ r1.student_id = r2.student_id) => r1 = r2

update_student(u, student_id, student_in) ==
    LET op == "update_student"
        Set(field) == field \in DOMAIN student_in
        department_id == IF Set("department_id") THEN student_in["department_id"]
                         ELSE students[student_id].department_id
        others == {r \in student_sections : r.student_id # student_id}
        mine == UNION {IF Set(s) THEN update_section(s, student_id, student_in[s])
                       ELSE SectionRows(s, student_id) : s \in StudentSections}
        Fail(result) == /\ last' = Response(op, u, result, NoId, NoId, student_id, {}, {}, 0)
                        /\ UNCHANGED <<students, student_sections>>
    IN
    /\ get_current_active_user(u)
    /\ IF student_id \notin DOMAIN students THEN Fail("not_found")
       \* check_admin_department_access is handed current_user.id, an int, and
       \* reads its .role: AttributeError
       ELSE IF users[u].role # SUPER_ADMIN THEN Fail("error")
       \* students.department_id is a foreign key: IntegrityError at the commit
       ELSE IF department_id \notin DOMAIN departments THEN Fail("error")
       ELSE IF ~SectionsCommit(others \cup mine) THEN Fail("error")
       ELSE /\ students' = [students EXCEPT ![student_id].department_id = department_id]
            /\ student_sections' = others \cup mine
            /\ last' = Response(op, u, "ok", department_id, NoId, student_id,
                           {student_id}, {}, 0)
    /\ UNCHANGED OtherThanStudents

\* no student is registered yet
InitStudentUpdates ==
    /\ FixedUsers
    /\ departments = (1 :> [name |-> "QA", description |-> NoText])
                     @@ (2 :> [name |-> "HR", description |-> NoText])
    /\ programs = (1 :> [department_id |-> 1, type |-> "REGULAR"])
    /\ students = <<>>
    /\ student_sections = {}
    /\ tokens = {}
    /\ refreshed = <<>>
    /\ inflight = [slot \in 1..2 |-> Idle]
    /\ EmptyLog

\* the update bodies sent here, for the first student and for one that is never
\* registered: those over department_id, address, family and
\* health, a body that moves the student carrying at most one section
UpdateBodies ==
    {b \in ValidStudentUpdate :
        /\ DOMAIN b \subseteq {"department_id", "address", "family", "health"}
        /\ "department_id" \in DOMAIN b => Cardinality(DOMAIN b) <= 2}

NextStudentUpdates ==
    \* a child or a youth is registered, in the first department or in one that
    \* does not exist, with at most the details of its own category
    \/ \E u \in {1, 2},
          student_in \in {s \in StudentCreate :
                             /\ s.category \in {"CHILDREN", "YOUTH"}
                             /\ s.department_id \in {1, 3}
                             /\ s.category_details.adult = {}
                             /\ s.category_details.adolescent = {}
                             /\ s.category = "CHILDREN" => s.category_details.youth = {}
                             /\ s.category = "YOUTH" => s.category_details.child = {}} :
          /\ create_student(u, student_in)
          /\ Cardinality(DOMAIN students') <= MaxUpdatedStudents
    \/ \E u \in {1, 2}, student_id \in {1, 4}, student_in \in UpdateBodies :
          update_student(u, student_id, student_in)

SpecStudentUpdates == InitStudentUpdates /\ [][NextStudentUpdates]_vars

-----------------------------------------------------------------------------
(* PUT /users/{user_id} followed by the gated requests of the updated user *)

MaxGatedSessions == 1    \* rows of attendance_sessions behind the gate

\* the bodies create-manager is sent here have a role that is not MANAGER: a
\* request the gate lets through is answered BadRequest, one it stops Forbidden
NextAssignments ==
    \/ \E u \in {1, 2}, user_id \in {2, 3}, user_update \in UserUpdate :
          update_user(u, user_id, user_update)
    \/ \E u \in {2, 3}, d \in DeptIds,
          user_data \in {b \in AssignedUserCreate : b.email = "d" /\ b.role = ADMIN} :
          create_manager(u, user_data, d)
    \/ \E u \in {2, 3}, d \in DeptIds :
          /\ create_attendance_session(u, 1, d, "CHILDREN", "REGULAR", <<>>)
          /\ Len(sessions') <= MaxGatedSessions

SpecAssignments == Init /\ [][NextAssignments]_vars

-----------------------------------------------------------------------------
(* Properties *)

\* what the claims mean by "u may act on department d"
Assigned(u, d) == <<u, d>> \in user_departments

MayManage(u, d) == users[u].role = SUPER_ADMIN \/ Assigned(u, d)

\* the records stored for a (session, student) pair in a records table
PairRecords(recs, sid, st) ==
    {i \in DOMAIN recs : recs[i].session_id = sid /\ recs[i].student_id = st}

\* C1: for every user u and department d the gate allows iff u is SUPER_ADMIN or d
\* is in u's assigned set; every other (u, d) is refused with Forbidden.  Holds of
\* check_department_permission and of check_admin_department_access.
C1_GateAllowsIffSuperAdminOrAssigned ==
    last.op \in {"check_department_permission", "check_admin_department_access"} =>
        /\ last.result \in {"allow", "forbidden"}
        /\ last.result = "allow" <=> MayManage(last.user, last.dept)

\* C1 witness: a SUPER_ADMIN with no assignment to d was allowed for d
C1_SuperAdminAllowedUnassigned ==
    /\ last.op = "check_department_permission"
    /\ users[last.user].role = SUPER_ADMIN
    /\ ~Assigned(last.user, last.dept)
    /\ last.result = "allow"

\* C2: a manual create with no overrides for an existing department d and category
\* c writes exactly one record per student of (d, c) for the new session, all
\* ABSENT, and no record for any other student.
C2_ManualCreateAllAbsent ==
    (/\ last.op = "create_attendance_session"
     /\ last.result = "created"
     /\ last.supplied = 0) =>
        LET s == sessions[last.sid]
        IN  /\ \A st \in DOMAIN students :
                   Cardinality(PairRecords(records, last.sid, st)) =
                       IF /\ students[st].department_id = s.department_id
                          /\ students[st].category = s.target_category
                       THEN 1 ELSE 0
            /\ \A i \in DOMAIN records :
                   records[i].session_id = last.sid =>
                       /\ records[i].status = ABSENT
                       /\ records[i].student_id \in DOMAIN students

\* C2 witness: a create with no overrides wrote the records of N = 2 students
C2_TwoStudentsRecorded ==
    /\ last.op = "create_attendance_session"
    /\ last.result = "created"
    /\ last.supplied = 0
    /\ Cardinality({i \in DOMAIN records : records[i].session_id = last.sid}) = 2

\* C3: of two batch creates with the same (program_id, date, category), one after
\* the other, the first creates the session and the second is rejected as a
\* duplicate and adds no session and no record: a batch create by a caller who may
\* manage the program's department creates the one session of its key when there
\* is none, and is rejected and changes nothing when there is one.
C3_SecondBatchIsDuplicate ==
    [][\A u \in UserIds, body \in BatchBodies :
          (/\ create_attendance_batch(u, body)
           /\ body.program_id \in DOMAIN programs
           /\ MayManage(u, programs[body.program_id].department_id)) =>
              LET Key(S) == {i \in DOMAIN S : /\ S[i].program_id = body.program_id
                                              /\ S[i].date = body.date
                                              /\ S[i].target_category = body.category}
              IN  IF Key(sessions) = {}
                  THEN /\ last'.result = "created"
                       /\ Cardinality(Key(sessions')) = 1
                  ELSE /\ last'.result = "duplicate"
                       /\ sessions' = sessions
                       /\ records' = records]_vars

\* C4: a collect that commits leaves exactly one record for its (session_id,
\* student_id), carrying the status and notes of this call whatever was stored
\* before; repeated on a record that already carries them it changes nothing.
C4_CollectUpserts ==
    [][(/\ last'.op = "collect_attendance"
        /\ last'.result \in {"created", "updated"}) =>
          \A d \in {1, 2}, r \in {x \in RecordRequests : x.student_id = last'.student} :
              collect_attendance(last'.user, d, last'.sid, r) =>
                  LET sid == last'.sid
                      want == IF r.present = "True" THEN PRESENT ELSE ABSENT
                      Same(recs, i) == recs[i].status = want /\ recs[i].remarks = r.notes
                  IN  /\ Cardinality(PairRecords(records', sid, r.student_id)) = 1
                      /\ \A i \in PairRecords(records', sid, r.student_id) : Same(records', i)
                      /\ (\E i \in PairRecords(records, sid, r.student_id) : Same(records, i))
                            => (records' = records /\ sessions' = sessions)
                      /\ Len(records') = IF PairRecords(records, sid, r.student_id) = {}
                                         THEN Len(records) + 1 ELSE Len(records)]_vars

\* C4 witness: a collect overwrote the ABSENT record of student 3 with PRESENT
C4_CollectOverwrote ==
    /\ last.op = "collect_attendance"
    /\ last.result = "updated"
    /\ Cardinality(PairRecords(records, last.sid, last.student)) = 1
    /\ \A i \in PairRecords(records, last.sid, last.student) :
           records[i].status = PRESENT /\ records[i].remarks = "late"

C6_OneRecordPerPair ==
    \A sid \in DOMAIN sessions, st \in StudentIds :
        Cardinality(PairRecords(records, sid, st)) <= 1

\* C7: a collect or add_record that writes to session s was allowed on s's own
\* department: the caller is SUPER_ADMIN or s.department_id is in the caller's
\* assigned set, for ADMIN and MANAGER alike, whatever department id was supplied.
C7_RecordWritesGatedOnSessionDepartment ==
    (/\ last.op \in {"add_record", "collect_attendance"}
     /\ last.result \in {"created", "updated"}) =>
        MayManage(last.user, sessions[last.sid].department_id)

\* C8: what list-sessions returns to a caller who is not SUPER_ADMIN are sessions
\* of the caller's assigned departments only.
C8_ListScopedToAssigned ==
    (/\ last.op = "list_attendance_sessions"
     /\ users[last.user].role # SUPER_ADMIN) =>
        \A i \in last.listed : Assigned(last.user, sessions[i].department_id)

\* C9: a batch create for an existing program, by a caller who may manage the
\* program's department, with no session stored for its key, creates a session
\* whose department_id and type are the program's, whatever department_id and
\* type the body carries, after the gate decided on the program's department.
C9_BatchSessionInheritsProgram ==
    [][\A u \in UserIds, body \in BatchBodies :
          (/\ create_attendance_batch(u, body)
           /\ body.program_id \in DOMAIN programs
           /\ MayManage(u, programs[body.program_id].department_id)
           /\ \A i \in DOMAIN sessions :
                  ~(/\ sessions[i].program_id = body.program_id
                    /\ sessions[i].date = body.date
                    /\ sessions[i].target_category = body.category)) =>
              /\ last'.dept = programs[body.program_id].department_id
              /\ Len(sessions') = Len(sessions) + 1
              /\ sessions'[Len(sessions')].program_id = body.program_id
              /\ sessions'[Len(sessions')].department_id =
                     programs[body.program_id].department_id
              /\ sessions'[Len(sessions')].type = programs[body.program_id].type]_vars

\* C10: soft-deleting a session sets its active flag to false and changes nothing
\* else; from then on no list-sessions result holds a session whose flag is false
\* (the endpoint takes no parameter that asks for inactive sessions), get-session
\* returns all the records of the session, and no request sets a false flag back
\* to true.
C10_SoftDeletedSessionHidden ==
    [][/\ \A u \in UserIds, sid \in DOMAIN sessions :
              (soft_delete_session(u, sid) /\ last'.result = "deleted") =>
                  /\ sessions' = [sessions EXCEPT ![sid].is_active = FALSE]
                  /\ records' = records
       /\ last'.op = "list_attendance_sessions" =>
              \A i \in last'.listed : sessions'[i].is_active
       /\ (last'.op = "get_session_details" /\ last'.result = "ok") =>
              last'.recs = {i \in DOMAIN records' : records'[i].session_id = last'.sid}
       /\ \A i \in DOMAIN sessions : ~sessions[i].is_active => ~sessions'[i].is_active]_vars

\* C11: a manual create that names a department that does not exist ends in
\* NotFound for every caller, whatever the caller's role and assignments, and
\* leaves the stored sessions and records unchanged.
C11_MissingDepartmentNotFoundForAll ==
    [][(/\ last'.op = "create_attendance_session"
        /\ last'.dept \notin DOMAIN departments) =>
          /\ last'.result = "not_found"
          /\ sessions' = sessions
          /\ records' = records]_vars

\* C11 as amended: the gate decides first, so such a create ends in NotFound for
\* a SUPER_ADMIN or a caller assigned to the id, in Forbidden for every other
\* caller, and leaves the stored sessions and records unchanged either way.
C11_MissingDepartmentNotFoundAfterGate ==
    [][(/\ last'.op = "create_attendance_session"
        /\ last'.dept \notin DOMAIN departments) =>
          /\ last'.result = IF MayManage(last'.user, last'.dept)
                            THEN "not_found" ELSE "forbidden"
          /\ sessions' = sessions
          /\ records' = records]_vars

\* C11 witness: a SUPER_ADMIN asked for a session of department 3, which is not
\* stored, after a session had been stored
C11_SuperAdminGotNotFound ==
    /\ last.op = "create_attendance_session"
    /\ last.result = "not_found"
    /\ last.dept \notin DOMAIN departments
    /\ users[last.user].role = SUPER_ADMIN
    /\ Len(sessions) > 0

\* C12: department names are unique in every reachable state; a create_department
\* with a name already stored is rejected with 400 and adds no department, and an
\* update_department that renames a department to a name another department holds
\* is rejected and changes no department.
C12_DepartmentNamesUnique ==
    /\ [](\A d, e \in DOMAIN departments :
              departments[d].name = departments[e].name => d = e)
    /\ [][/\ \A u \in {last'.user} \cap UserIds, data \in DepartmentCreate :
                 (/\ last'.op = "create_department"
                  /\ create_department(u, data)
                  /\ get_current_super_admin(u)
                  /\ \E d \in DOMAIN departments : departments[d].name = data.name) =>
                     /\ last'.result = "bad_request"
                     /\ departments' = departments
          /\ \A u \in {last'.user} \cap UserIds, d \in {last'.dept} \cap DeptIds,
                upd \in DepartmentUpdate :
                 (/\ last'.op = "update_department"
                  /\ update_department(u, d, upd)
                  /\ get_current_super_admin(u)
                  /\ d \in DOMAIN departments
                  /\ "name" \in DOMAIN upd
                  /\ \E e \in DOMAIN departments \ {d} :
                         departments[e].name = upd["name"]) =>
                     /\ last'.result \in {"bad_request", "error"}
                     /\ departments' = departments]_vars

\* C12 witness: with three departments stored, a rename to a name another
\* department holds was rejected
C12_RenameToHeldNameRejected ==
    /\ last.op = "update_department"
    /\ last.result = "bad_request"
    /\ Cardinality(DOMAIN departments) = 3

\* C13: for a caller who is not SUPER_ADMIN and an explicit department filter
\* outside the caller's assigned departments, list_students and
\* list_students_detailed are rejected with Forbidden and return no students.
C13_ListOutsideAssignedForbidden ==
    (/\ last.op \in {"list_students", "list_students_detailed"}
     /\ users[last.user].role # SUPER_ADMIN
     /\ last.dept # NoId
     /\ ~Assigned(last.user, last.dept)) =>
        /\ last.result = "forbidden"
        /\ last.listed = {}

\* C13 as amended: such a request is rejected with Forbidden when the caller has
\* at least one assigned department, and answered with an empty list when the
\* caller has none; no student is returned either way.
C13_ListOutsideAssignedForbiddenOrEmpty ==
    (/\ last.op \in {"list_students", "list_students_detailed"}
     /\ users[last.user].role # SUPER_ADMIN
     /\ last.dept # NoId
     /\ ~Assigned(last.user, last.dept)) =>
        /\ last.result = IF \E d \in DeptIds : Assigned(last.user, d)
                         THEN "forbidden" ELSE "ok"
        /\ last.listed = {}

\* C13 witness: ADMIN 2, assigned to department 1, asked for the students of
\* department 2, which has students, and was refused
C13_AdminRefusedOtherDepartment ==
    /\ last.op \in {"list_students", "list_students_detailed"}
    /\ last.result = "forbidden"
    /\ users[last.user].role = ADMIN
    /\ Assigned(last.user, 1)
    /\ \E s \in DOMAIN students : students[s].department_id = last.dept

\* C14: for each of the four categories, a create_student whose category_details
\* lacks the section of its category is rejected with a Validation error and
\* writes no student row and no sub-record row (stated for the SUPER_ADMIN
\* caller, the caller whose requests reach the handler's own steps).
C14_MissingCategoryDetailsRejected ==
    [][\A u \in {last'.user} \cap UserIds, student_in \in StudentCreate :
          (/\ last'.op = "create_student"
           /\ create_student(u, student_in)
           /\ users[u].role = SUPER_ADMIN
           /\ \/ student_in.category = "CHILDREN" /\ student_in.category_details.child = {}
              \/ student_in.category = "ADOLESCENT"
                    /\ student_in.category_details.adolescent = {}
              \/ student_in.category = "YOUTH" /\ student_in.category_details.youth = {}
              \/ student_in.category = "ADULT" /\ student_in.category_details.adult = {}) =>
              /\ last'.result = "validation"
              /\ students' = students
              /\ student_sections' = student_sections]_vars

\* C15: no request of a caller who is not SUPER_ADMIN creates a SUPER_ADMIN user or
\* raises a user to SUPER_ADMIN: create_user and update_user reject such callers
\* and change nothing, create_manager stores role MANAGER and create_admin stores
\* role ADMIN whatever role the payload carries.
C15_OnlySuperAdminMakesSuperAdmin ==
    [][/\ \A i \in DOMAIN users' :
              (/\ users'[i].role = SUPER_ADMIN
               /\ (i \notin DOMAIN users \/ users[i].role # SUPER_ADMIN)) =>
                  users[last'.user].role = SUPER_ADMIN
       /\ (/\ last'.op \in {"create_user", "update_user"}
           /\ users[last'.user].role # SUPER_ADMIN) =>
              /\ last'.result = "forbidden"
              /\ users' = users
              /\ user_departments' = user_departments
       /\ (last'.op = "create_manager" /\ last'.result = "created") =>
              \A i \in last'.listed : i \notin DOMAIN users /\ users'[i].role = MANAGER
       /\ (last'.op = "create_admin" /\ last'.result = "created") =>
              \A i \in last'.listed : i \notin DOMAIN users /\ users'[i].role = ADMIN]_vars

\* C15 witness: with a second SUPER_ADMIN stored, a caller who is not SUPER_ADMIN
\* asked create_user or update_user and was refused
C15_NonSuperAdminRefused ==
    /\ last.op \in {"create_user", "update_user"}
    /\ last.result = "forbidden"
    /\ users[last.user].role # SUPER_ADMIN
    /\ \E i \in DOMAIN users \ {1} : users[i].role = SUPER_ADMIN

\* C16: create_manager for department d creates a user only when the caller is
\* SUPER_ADMIN or an ADMIN assigned to d, d exists, the payload role is MANAGER
\* and the email is unused; a MANAGER caller or an ADMIN not assigned to d is
\* refused with Forbidden and nothing is created; the user created has role
\* MANAGER and {d} as its assignment set.
C16_CreateManagerGated ==
    [][last'.op = "create_manager" =>
       \A u \in {last'.user} \cap CallerIds, d \in {last'.dept} \cap DeptIds,
          data \in AssignedUserCreate :
          create_manager(u, data, d) =>
              LET allowed == \/ users[u].role = SUPER_ADMIN
                             \/ users[u].role = ADMIN /\ Assigned(u, d)
              IN  /\ ~allowed => last'.result = "forbidden"
                  /\ last'.result # "created" =>
                         users' = users /\ user_departments' = user_departments
                  /\ last'.result = "created" =>
                         /\ allowed
                         /\ d \in DOMAIN departments
                         /\ data.role = MANAGER
                         /\ \A i \in DOMAIN users : users[i].email # data.email
                         /\ \E n \in DOMAIN users' \ DOMAIN users :
                                /\ DOMAIN users' = DOMAIN users \cup {n}
                                /\ users'[n].role = MANAGER
                                /\ users'[n].email = data.email
                                /\ {x \in user_departments' : x[1] = n} = {<<n, d>>}
                                /\ user_departments' = user_departments \cup {<<n, d>>}
                         /\ \A i \in DOMAIN users : users'[i] = users[i]]_vars

\* C16 witness: ADMIN 2, assigned to department 1, created a manager of department 1
C16_AdminCreatedManager ==
    /\ last.op = "create_manager"
    /\ last.result = "created"
    /\ users[last.user].role = ADMIN
    /\ \A n \in last.listed : users[n].role = MANAGER /\ Assigned(n, last.dept)

\* C17: a create_user by a SUPER_ADMIN, with an unused email and a department_ids
\* list that names a department that does not exist, ends in NotFound and
\* persists nothing: no user has the email afterwards and the assignments are
\* unchanged.
C17_CreateUserUnknownDepartment ==
    [][last'.op = "create_user" =>
       \A u \in {last'.user} \cap CallerIds, data \in UserCreate :
          (/\ last'.op = "create_user"
           /\ users[u].role = SUPER_ADMIN
           /\ \A i \in DOMAIN users : users[i].email # data.email
           /\ \E k \in DOMAIN data.department_ids :
                  data.department_ids[k] \notin DOMAIN departments
           /\ create_user(u, data)) =>
              /\ last'.result = "not_found"
              /\ users' = users
              /\ user_departments' = user_departments
              /\ \A i \in DOMAIN users' : users'[i].email # data.email]_vars

\* C17 witness: a create_user naming departments 1 and 3 ended in NotFound
C17_CreateUserGotNotFound ==
    /\ last.op = "create_user"
    /\ last.result = "not_found"
    /\ last.supplied = 2
    /\ \A i \in DOMAIN users : users[i].email # "d"

\* C18: the link table never holds a row whose user is not stored, and after a
\* delete_user that succeeded no row refers to the deleted user.
C18_NoAssignmentOfDeletedUser ==
    /\ \A x \in user_departments : x[1] \in DOMAIN users
    /\ (last.op = "delete_user" /\ last.result = "deleted") =>
           \A i \in last.listed : \A x \in user_departments : x[1] # i

\* C18 witness: user 3, assigned to department 1 from the start, was deleted
C18_AssignedUserDeleted ==
    /\ last.op = "delete_user"
    /\ last.result = "deleted"
    /\ last.listed = {3}
    /\ 3 \notin DOMAIN users

\* C19: delete_program on a program the caller may manage completes, leaving
\* the program row, the sessions and the records in place, and from then on
\* list_programs for the program's department answers: without the program by
\* default, with it when include_inactive is true.
C19_DeleteProgramSoftDeletes ==
    [][/\ (/\ last'.op = "delete_program"
           /\ \E p \in last'.listed : /\ p \in DOMAIN programs
                                      /\ MayManage(last'.user, programs[p].department_id))
          => /\ last'.result = "deleted"
             /\ programs' = programs /\ sessions' = sessions /\ records' = records
       /\ DOMAIN programs \subseteq DOMAIN programs'
       /\ (/\ last'.op = "list_programs"
           /\ MayManage(last'.user, last'.dept))
          => /\ last'.result = "ok"
             /\ last'.listed \subseteq
                   {p \in DOMAIN programs : programs[p].department_id = last'.dept}]_vars

\* C20: token types are never interchangeable.  A signed refresh token is
\* refused by get_current_user, so a protected request presenting one ends in
\* Unauthorized; a signed access token presented to the refresh operation ends
\* in Unauthorized and issues nothing; and every successful login or refresh
\* carries exactly one access and one refresh token, both for the same user id.
C20_TokenTypesNotInterchangeable ==
    /\ [](\A t \in tokens : t.type = REFRESH => get_current_user(t) = NoId)
    /\ [][/\ (/\ last'.op = "get_current_user_info"
              /\ \E t \in last'.recs : t \in tokens /\ t.type = REFRESH)
             => last'.result = "unauthorized"
          /\ (/\ last'.op = "refresh_token"
              /\ \E t \in last'.recs : t \in tokens /\ t.type = ACCESS)
             => (last'.result = "unauthorized" /\ tokens' = tokens)
          /\ (/\ last'.op \in {"login", "refresh_token"}
              /\ last'.result = "ok")
             => /\ Cardinality(last'.listed) = 2
                /\ Cardinality({t \in last'.listed : t.type = ACCESS}) = 1
                /\ Cardinality({t \in last'.listed : t.type = REFRESH}) = 1
                /\ \A t \in last'.listed : t.sub = str(last'.user)
                /\ last'.listed \subseteq tokens'
                /\ last'.user \in DOMAIN users]_vars

\* a protected request presented a signed refresh token and was refused
C20_RefreshTokenRefusedAsAccess ==
    /\ last.op = "get_current_user_info"
    /\ last.result = "unauthorized"
    /\ \E t \in last.recs : t \in tokens /\ t.type = REFRESH /\ int(t.sub) \in DOMAIN users

\* C21: a protected operation runs only for a stored, active user.  While the
\* user a signed token names is inactive or deleted, a protected request with
\* the user's access token is refused, a refresh with the user's refresh token
\* is refused, and a login with the user's email is refused; none of the three
\* changes any table or issues any token.
C21_InactiveOrDeletedUserRejected ==
    [][/\ (/\ last'.op = "get_current_user_info"
           /\ \E t \in last'.recs : /\ t \in tokens /\ t.type = ACCESS
                                    /\ int(t.sub) \notin DOMAIN users
                                       \/ ~users[int(t.sub)].is_active)
          => /\ last'.result \in {"unauthorized", "forbidden"}
             /\ tables' = tables /\ sessions' = sessions /\ records' = records
       /\ (last'.op \in {"delete_user", "update_user"})
          => /\ last'.user \in DOMAIN users
             /\ users[last'.user].is_active
       /\ (/\ last'.op = "refresh_token"
           /\ \E t \in last'.recs : /\ t \in tokens /\ t.type = REFRESH
                                    /\ int(t.sub) \notin DOMAIN users
                                       \/ ~users[int(t.sub)].is_active)
          => /\ last'.result = "unauthorized"
             /\ tables' = tables /\ sessions' = sessions /\ records' = records
       /\ last'.op = "login"
          => \A email \in {"a", "b", "c", "d"} :
                (/\ login(email, "pw")
                 /\ \A i \in UsersWithEmail(email) : ~users[i].is_active)
                => /\ last'.result \in {"unauthorized", "bad_request"}
                   /\ tables' = tables /\ sessions' = sessions /\ records' = records]_vars

\* user 2 logged in, was then deactivated or deleted, and a protected request
\* with the access token issued to user 2 has just been refused
C21_StaleAccessTokenRefused ==
    /\ last.op = "get_current_user_info"
    /\ last.result \in {"unauthorized", "forbidden"}
    /\ \E t \in last.recs : /\ t \in tokens /\ t.type = ACCESS /\ t.sub = "2"
    /\ 2 \notin DOMAIN users \/ ~users[2].is_active

C23_UncheckedBatchInserts ==
    [][last'.op = "create_attendance_batch" =>
          \A body \in {b \in BatchBodies : Len(b.records) = last'.supplied} :
             (/\ body.program_id \in DOMAIN programs
              /\ MayManage(last'.user, programs[body.program_id].department_id)
              /\ ExistingSessions(body.program_id, body.date, body.category) = {}
              /\ create_attendance_batch(last'.user, body))
             => /\ Len(sessions') = Len(sessions) + 1
                /\ sessions'[Len(sessions')].program_id = body.program_id
                /\ sessions'[Len(sessions')].date = body.date
                /\ sessions'[Len(sessions')].target_category = body.category]_vars

\* C24: two collects for one (session_id, student_id) that both look the record
\* up before either inserts both insert.  A collect whose lookup found no
\* record adds a record at its commit whatever was inserted for the pair in
\* between, so while another collect for the same pair is past its own empty
\* lookup, or has inserted since, the pair ends with one record more.
C24_InterleavedCollectsBothInsert ==
    [][\A slot \in Slots :
          (/\ inflight[slot] # Idle
           /\ inflight[slot].existing = {}
           /\ collect_attendance_commit(slot))
          => LET req == inflight[slot]
                 Pair(recs) == {i \in DOMAIN recs :
                                   /\ recs[i].session_id = req.sid
                                   /\ recs[i].student_id = req.record.student_id}
             IN  /\ last'.result = "created"
                 /\ Cardinality(Pair(records')) = Cardinality(Pair(records)) + 1
                 /\ \A other \in Slots \ {slot} :
                       (/\ inflight[other] # Idle
                        /\ inflight[other].sid = req.sid
                        /\ inflight[other].record.student_id = req.record.student_id
                        /\ inflight[other].existing = {})
                       => /\ inflight'[other] = inflight[other]
                          /\ ENABLED collect_attendance_commit(other)
                             \/ Len(records') = MaxRaceRecords]_vars

\* the second of two interleaved collects has just inserted: the pair it names,
\* which had no record when the session was stored, now has two
C24_TwoRecordsForOnePair ==
    /\ last.op = "collect_attendance"
    /\ last.result = "created"
    /\ Cardinality(RecordsOf(last.sid, last.student)) = 2

\* C25: a soft-deleted program does not block writes.  When delete_program has
\* just been served for a program p its caller may manage, a batch create for p
\* by a caller who may manage p's department, with no session yet for its
\* (date, category), succeeds and stores the session with one record per item.
C25_BatchAfterDeleteProgram ==
    [][(/\ last.op = "delete_program"
        /\ last.result \notin {"not_found", "forbidden"}
        /\ last'.op = "create_attendance_batch")
       => \A body \in {b \in BatchBodies : /\ b.program_id \in last.listed
                                           /\ b.department_id = 1
                                           /\ Len(b.records) = last'.supplied} :
             (/\ MayManage(last'.user, programs[body.program_id].department_id)
              /\ ExistingSessions(body.program_id, body.date, body.category) = {}
              /\ create_attendance_batch(last'.user, body))
             => /\ last'.result = "created"
                /\ Len(sessions') = Len(sessions) + 1
                /\ sessions'[Len(sessions')].program_id = body.program_id
                /\ Len(records') = Len(records) + Len(body.records)]_vars

\* C26: a manual create with overrides writes exactly one record per student of
\* (department_id, category) and none for any other student, an override for a
\* student outside included.  A matching student the body has an override for
\* (the last one, when it has two) gets PRESENT when the override says present
\* and ABSENT otherwise, with the override's notes; a matching student without
\* an override gets ABSENT and no remarks.
C26_ManualCreateAppliesOverrides ==
    [][(/\ last'.op = "create_attendance_session"
        /\ last'.result = "created") =>
          LET sid == last'.sid
              s == sessions'[sid]
          IN  \A recs \in {r \in ManualOverrides : Len(r) = last'.supplied} :
                 create_attendance_session(last'.user, s.date, s.department_id,
                                           s.target_category, s.type, recs) =>
                    \A st \in DOMAIN students :
                       LET mine == PairRecords(records', sid, st)
                           given == {i \in DOMAIN recs : recs[i].student_id = st}
                           o == recs[CHOOSE i \in given : \A j \in given : j <= i]
                       IN  IF ~(/\ students[st].department_id = s.department_id
                                /\ students[st].category = s.target_category)
                           THEN mine = {}
                           ELSE /\ Cardinality(mine) = 1
                                /\ \A i \in mine :
                                      IF given = {}
                                      THEN /\ records'[i].status = ABSENT
                                           /\ records'[i].remarks = NoText
                                      ELSE /\ records'[i].status =
                                                 IF o.present = "True" THEN PRESENT
                                                 ELSE ABSENT
                                           /\ records'[i].remarks = o.notes]_vars

\* a create for (department 1, CHILDREN) with two overrides has stored student 1
\* as PRESENT with the notes of its override, student 2 as ABSENT, and nothing
\* for student 3
C26_OverrideAppliedToMatchingStudent ==
    /\ last.op = "create_attendance_session"
    /\ last.result = "created"
    /\ last.supplied = 2
    /\ \E i \in PairRecords(records, last.sid, 1) :
          records[i].status = PRESENT /\ records[i].remarks = "late"
    /\ \E i \in PairRecords(records, last.sid, 2) : records[i].status = ABSENT
    /\ PairRecords(records, last.sid, 3) = {}

\* db_student.address, .family, ... as the step leaves them
RowsAfter(section, student_id) ==
    {r \in student_sections' : r.section = section /\ r.student_id = student_id}

\* the sections of the student an update_student step answered for, after the step
SectionsAfterUpdate(empty_is_written) ==
    \A student_in \in UpdateBodies :
        (/\ users[last'.user].role = SUPER_ADMIN
         /\ last'.student \in DOMAIN students
         /\ ("department_id" \in DOMAIN student_in
                => student_in["department_id"] \in DOMAIN departments)
         /\ update_student(last'.user, last'.student, student_in))
            => /\ last'.result = "ok"
               /\ \A s \in StudentSections :
                     IF s \in DOMAIN student_in /\ (empty_is_written \/ student_in[s] # <<>>)
                     THEN /\ Cardinality(RowsAfter(s, last'.student)) = 1
                          /\ \A r \in RowsAfter(s, last'.student), f \in DOMAIN student_in[s] :
                                r[f] = student_in[s][f]
                     ELSE RowsAfter(s, last'.student) = SectionRows(s, last'.student)

C28_ManualCreateNeverDeduplicates ==
    [][ (/\ last'.op = "create_attendance_session"
         /\ check_department_permission(last'.user, last'.dept)
         /\ DepartmentExists(last'.dept))
        => LET new_id == Len(sessions) + 1
               added == {i \in DOMAIN records' : i > Len(records)}
           IN  /\ last'.result = "created"
               /\ last'.sid = new_id
               /\ Len(sessions') = new_id
               /\ \A i \in DOMAIN sessions : sessions'[i] = sessions[i]
               /\ sessions'[new_id].department_id = last'.dept
               /\ sessions'[new_id].program_id = NoId
               /\ \A i \in DOMAIN records : records'[i] = records[i]
               /\ \A i \in added : records'[i].session_id = new_id
               /\ \A s \in StudentIds :
                     Cardinality({i \in added : records'[i].student_id = s})
                        = IF s \in MatchingStudents(last'.dept,
                                                    sessions'[new_id].target_category)
                          THEN 1 ELSE 0 ]_vars

\* C28 witness: the second of two manual sessions of one (department, date,
\* category) has just been created; neither has a program and each has its own
\* record for each of the two matching students
C28_TwoSessionsOfOneKey ==
    /\ last.op = "create_attendance_session" /\ last.result = "created" /\ last.sid = 2
    /\ Len(sessions) = 2
    /\ sessions[1].department_id = sessions[2].department_id
    /\ sessions[1].date = sessions[2].date
    /\ sessions[1].target_category = sessions[2].target_category
    /\ sessions[1].program_id = NoId /\ sessions[2].program_id = NoId
    /\ \A sid \in 1..2, s \in MatchingStudents(1, "CHILDREN") :
           Cardinality({i \in DOMAIN records : /\ records[i].session_id = sid
                                               /\ records[i].student_id = s}) = 1
    /\ sessions[1].department_id = 1 /\ sessions[1].target_category = "CHILDREN"

C30_AssignmentsReadFromStorage ==
    [][ /\ last'.op = "update_user" =>
              \A user_id \in {2, 3}, user_update \in UserUpdate :
                 update_user(last'.user, user_id, user_update) =>
                    LET Given == "department_ids" \in DOMAIN user_update
                        S == IF Given
                             THEN {user_update["department_ids"][i] :
                                      i \in DOMAIN user_update["department_ids"]}
                             ELSE get_user_departments(user_id)
                    IN  /\ (/\ users[last'.user].role = SUPER_ADMIN
                            /\ user_id \in DOMAIN users
                            /\ Given /\ ~(S \subseteq DOMAIN departments))
                               => last'.result = "not_found"
                        /\ last'.result # "updated"
                               => users' = users /\ user_departments' = user_departments
                        /\ last'.result = "updated"
                               => /\ get_user_departments(user_id)' = S
                                  /\ S \subseteq DOMAIN departments
                                  /\ users'[user_id].role # SUPER_ADMIN
                                        => \A d \in DeptIds :
                                              /\ check_admin_department_access(user_id, d)'
                                                    <=> d \in S
                                              /\ check_department_permission(user_id, d)'
                                                    <=> d \in S
        /\ (/\ last.op = "update_user" /\ last.result = "updated"
            /\ last.listed = {last'.user}
            /\ \/ last'.op = "create_manager" /\ users[last'.user].role = ADMIN
               \/ last'.op = "create_attendance_session"
                     /\ users[last'.user].role # SUPER_ADMIN)
           => (last'.result = "forbidden"
                  <=> last'.dept \notin get_user_departments(last'.user)) ]_vars

\* C30 witness: the MANAGER user 3, assigned to department 1 from the start, has
\* just been given department_ids [2]: the assignment set is {2}, and the gate
\* denies department 1 and allows department 2
C30_AssignmentsReplaced ==
    /\ last.op = "update_user" /\ last.result = "updated"
    /\ last.listed = {3} /\ last.supplied = 1
    /\ 3 \in DOMAIN users /\ users[3].role = MANAGER
    /\ get_user_departments(3) = {2}
    /\ ~check_admin_department_access(3, 1)
    /\ check_admin_department_access(3, 2)

====
